---- MODULE Spec2Model ----
(***************************************************************************)
(* The USSD BMI calculator of src/server.js, navigation-stack variant      *)
(* (lines 748-1495): the in-memory session map, the ussd_sessions and      *)
(* bmi_results tables, the request handler processUSSDFlow with its state  *)
(* handlers, the expiry sweeps, and calculateBMI on IEEE-754 doubles.      *)
(***************************************************************************)
EXTENDS Integers, Sequences, FiniteSets, TLC

(***************************************************************************)
(* JavaScript numbers.  A Number is an IEEE-754 binary64; +, *, / round    *)
(* the exact result to the nearest double, ties to even.  TLC's integers   *)
(* are 32 bits wide, so a mantissa is a natural number written as a        *)
(* sequence of limbs, least significant first, in base 2^15.               *)
(***************************************************************************)
LimbBits == 14 + 1
BASE == 2 ^ LimbBits
MantBits == 52 + 1

RECURSIVE FromInt(_)
FromInt(n) == IF n = 0 THEN <<>> ELSE <<n % BASE>> \o FromInt(n \div BASE)

RECURSIVE ToInt(_)
ToInt(a) == IF a = <<>> THEN 0 ELSE a[1] + BASE * ToInt(Tail(a))

RECURSIVE Trim(_)
Trim(a) ==
  IF a = <<>> THEN a
  ELSE IF a[Len(a)] = 0 THEN Trim(SubSeq(a, 1, Len(a) - 1)) ELSE a

RECURSIVE AddC(_, _, _)
AddC(a, b, c) ==
  IF a = <<>> /\ b = <<>> THEN (IF c = 0 THEN <<>> ELSE <<c>>)
  ELSE LET x == (IF a = <<>> THEN 0 ELSE a[1]) + (IF b = <<>> THEN 0 ELSE b[1]) + c
       IN <<x % BASE>> \o AddC(IF a = <<>> THEN a ELSE Tail(a),
                               IF b = <<>> THEN b ELSE Tail(b), x \div BASE)

Add(a, b) == AddC(a, b, 0)

\* a - b - br for a >= b + br
RECURSIVE SubB(_, _, _)
SubB(a, b, br) ==
  IF a = <<>> THEN <<>>
  ELSE LET x == a[1] - (IF b = <<>> THEN 0 ELSE b[1]) - br
       IN <<(x + BASE) % BASE>>
            \o SubB(Tail(a), IF b = <<>> THEN b ELSE Tail(b), IF x < 0 THEN 1 ELSE 0)

Sub(a, b) == Trim(SubB(a, b, 0))

\* -1, 0, 1 as a < b, a = b, a > b; limbs i..1 are compared when lengths agree
RECURSIVE CmpFrom(_, _, _)
CmpFrom(a, b, i) ==
  IF i = 0 THEN 0
  ELSE IF a[i] < b[i] THEN -1
  ELSE IF a[i] > b[i] THEN 1
  ELSE CmpFrom(a, b, i - 1)

Cmp(a, b) ==
  IF Len(a) < Len(b) THEN -1
  ELSE IF Len(a) > Len(b) THEN 1
  ELSE CmpFrom(a, b, Len(a))

\* a * k + c for 0 <= k, c < BASE
RECURSIVE MulSmall(_, _, _)
MulSmall(a, k, c) ==
  IF a = <<>> THEN (IF c = 0 THEN <<>> ELSE <<c>>)
  ELSE LET x == a[1] * k + c
       IN <<x % BASE>> \o MulSmall(Tail(a), k, x \div BASE)

ShlLimbs(a, n) == IF a = <<>> THEN a ELSE [i \in 1..n |-> 0] \o a

\* a * 2^s
Shl(a, s) == ShlLimbs(Trim(MulSmall(a, 2 ^ (s % LimbBits), 0)), s \div LimbBits)

\* floor(a / 2^t)
Shr(a, t) ==
  LET q == t \div LimbBits
      r == t % LimbBits
      limb(i) == IF i > Len(a) THEN 0 ELSE a[i]
  IN IF Len(a) <= q THEN <<>>
     ELSE Trim([i \in 1..(Len(a) - q) |->
                  (limb(i + q) \div 2 ^ r) + (limb(i + q + 1) % 2 ^ r) * 2 ^ (LimbBits - r)])

RECURSIVE Mul(_, _)
Mul(a, b) ==
  IF a = <<>> \/ b = <<>> THEN <<>>
  ELSE Add(Trim(MulSmall(a, b[1], 0)), ShlLimbs(Mul(a, Tail(b)), 1))

RECURSIVE IntBitLen(_)
IntBitLen(n) == IF n = 0 THEN 0 ELSE 1 + IntBitLen(n \div 2)

BitLen(a) == IF a = <<>> THEN 0 ELSE LimbBits * (Len(a) - 1) + IntBitLen(a[Len(a)])

\* bit i of a, bit 0 the least significant
Bit(a, i) ==
  IF i \div LimbBits + 1 > Len(a) THEN 0
  ELSE (a[i \div LimbBits + 1] \div 2 ^ (i % LimbBits)) % 2

\* One step of binary long division of n by d: bit i of n is brought down
\* to the remainder, r2, and the next bit of the quotient q is decided.
DivDecide(r2, d, q) ==
  IF Cmp(r2, d) >= 0 THEN <<AddC(q, q, 1), Sub(r2, d)>> ELSE <<AddC(q, q, 0), r2>>

DivBit(n, d, i, qr) ==
  IF i < 0 THEN qr ELSE DivDecide(AddC(qr[2], qr[2], Bit(n, i)), d, qr[1])

DivBit4(n, d, i, qr) ==
  DivBit(n, d, i - 3, DivBit(n, d, i - 2, DivBit(n, d, i - 1, DivBit(n, d, i, qr))))

\* bits i..0 of n are still to bring down, four to a step
RECURSIVE DivStep(_, _, _, _)
DivNext(n, d, i, qr) == IF Len(qr) = 2 THEN DivStep(n, d, i, qr) ELSE qr

DivStep(n, d, i, qr) ==
  IF i < 0 THEN qr ELSE DivNext(n, d, i - 4, DivBit4(n, d, i, qr))

\* <<floor(n / d), n mod d>> for d > 0: the leading bits of n that are
\* below d start the remainder, the other k bits are brought down
DivFrom(n, d, k) ==
  IF d = <<1>> THEN <<n, <<>>>>
  ELSE IF k <= 0 THEN <<<<>>, n>>
  ELSE DivStep(n, d, k - 1, <<<<>>, Shr(n, k)>>)

DivMod(n, d) == DivFrom(n, d, BitLen(n) - BitLen(d) + 1)

\* A double of value m * 2^e: m has MantBits bits, or is <<>> for zero.
DblZero == [m |-> <<>>, e |-> 0]

\* the mantissa m1 * 2^e after rounding: m1 may have one bit too many
RoundCarry(m1, e) ==
  IF BitLen(m1) > MantBits THEN [m |-> Shr(m1, 1), e |-> e + 1] ELSE [m |-> m1, e |-> e]

\* (q + r) * 2^e, where 0 <= r < 1 is zero exactly when rem is <<>>, to
\* MantBits bits: the t low bits of q go (t is 2 or 3), ties to even
RoundBits(q, rem, t, e) ==
  RoundCarry(IF \/ q[1] % 2 ^ t > 2 ^ (t - 1)
                \/ /\ q[1] % 2 ^ t = 2 ^ (t - 1)
                   /\ (rem # <<>> \/ (q[1] \div 2 ^ t) % 2 = 1)
               THEN Add(Shr(q, t), <<1>>)
               ELSE Shr(q, t),
             e + t)

RoundQuot(qr, e) == RoundBits(qr[1], qr[2], BitLen(qr[1]) - MantBits, e)

\* n / d is scaled by 2^s and the quotient has MantBits + 2 or + 3 bits
RoundScaled(n, d, s, e) ==
  RoundQuot(DivMod(IF s >= 0 THEN Shl(n, s) ELSE n, IF s >= 0 THEN d ELSE Shl(d, 0 - s)),
            e - s)

\* The double nearest to (n / d) * 2^e, ties to even (n, d > 0).
RoundRat(n, d, e) == RoundScaled(n, d, MantBits + 2 + BitLen(d) - BitLen(n), e)

DblOfInt(n) == IF n = 0 THEN DblZero ELSE RoundRat(FromInt(n), <<1>>, 0)

DblMul(x, y) ==
  IF x.m = <<>> \/ y.m = <<>> THEN DblZero
  ELSE RoundRat(Mul(x.m, y.m), <<1>>, x.e + y.e)

\* x / y for y # 0
DblDiv(x, y) ==
  IF x.m = <<>> THEN DblZero ELSE RoundRat(x.m, y.m, x.e - y.e)

\* x <= n for a double x >= 0 and an integer n >= 0
DblLeqInt(x, n) ==
  \/ x.m = <<>>
  \/ IF x.e >= 0 THEN Cmp(Shl(x.m, x.e), FromInt(n)) <= 0
     ELSE Cmp(x.m, Shl(FromInt(n), 0 - x.e)) <= 0

\* Number.prototype.toFixed(1) of x >= 0: the integer n nearest to 10 * x,
\* the larger one of two; the string is the decimal n with a point before
\* its last digit, written here as n itself (tenths).
toFixed1(x) ==
  IF x.m = <<>> THEN 0
  ELSE LET m10 == Trim(MulSmall(x.m, 10, 0))
       IN IF x.e >= 0 THEN ToInt(Shl(m10, x.e))
          ELSE ToInt(Shr(Add(Shl(m10, 1), Shl(<<1>>, 0 - x.e)), 1 - x.e))

(***************************************************************************)
(* Strings.  A text is a sequence of one-character strings, so that        *)
(* split, parseInt and parseFloat can be computed as the code computes     *)
(* them.  The alphabet has digits, signs, the point, letters and '*'; it   *)
(* has no white space, no exponent letter and no hexadecimal prefix.       *)
(***************************************************************************)
Digits == {"0", "1", "2", "3", "4", "5", "6", "7", "8", "9"}

DigitVal(c) ==
  CASE c = "0" -> 0 [] c = "1" -> 1 [] c = "2" -> 2 [] c = "3" -> 3 [] c = "4" -> 4
    [] c = "5" -> 5 [] c = "6" -> 6 [] c = "7" -> 7 [] c = "8" -> 8 [] c = "9" -> 9

\* text.split('*'): the segments between the stars; "" splits to <<"">>
RECURSIVE split(_)
split(text) ==
  IF text = <<>> THEN <<(<<>>)>>
  ELSE LET rest == split(Tail(text))
       IN IF Head(text) = "*" THEN <<(<<>>)>> \o rest
          ELSE <<(<<Head(text)>> \o rest[1])>> \o Tail(rest)

\* the longest prefix of str made of digits
RECURSIVE DigitPrefix(_)
DigitPrefix(str) ==
  IF str = <<>> THEN <<>>
  ELSE IF Head(str) \in Digits THEN <<Head(str)>> \o DigitPrefix(Tail(str))
  ELSE <<>>

RECURSIVE DigitsToInt(_, _)
DigitsToInt(ds, acc) ==
  IF ds = <<>> THEN acc ELSE DigitsToInt(Tail(ds), 10 * acc + DigitVal(Head(ds)))

RECURSIVE DigitsToNat(_, _)
DigitsToNat(ds, acc) ==
  IF ds = <<>> THEN Trim(acc)
  ELSE DigitsToNat(Tail(ds), MulSmall(acc, 10, DigitVal(Head(ds))))

RECURSIVE Pow10(_)
Pow10(k) == IF k = 0 THEN <<1>> ELSE MulSmall(Pow10(k - 1), 10, 0)

Unsigned(str) == IF str # <<>> /\ Head(str) \in {"-", "+"} THEN Tail(str) ELSE str

\* parseInt(str): an optional sign and the longest run of digits after it;
\* NaN when there is no digit.
parseInt(str) ==
  LET ds == DigitPrefix(Unsigned(str))
  IN IF ds = <<>> THEN [nan |-> TRUE, v |-> 0]
     ELSE [nan |-> FALSE,
           v   |-> IF Head(str) = "-" THEN 0 - DigitsToInt(ds, 0) ELSE DigitsToInt(ds, 0)]

\* parseFloat(str): an optional sign, digits, and an optional point with
\* digits; NaN when there is no digit.  abs is the double nearest to the decimal.
FractionDigits(rest) ==
  IF rest # <<>> /\ Head(rest) = "." THEN DigitPrefix(Tail(rest)) ELSE <<>>

DecimalValue(n, scale) == IF n = <<>> THEN DblZero ELSE RoundRat(n, Pow10(scale), 0)

ParseDecimal(str, ip, fp) ==
  IF ip = <<>> /\ fp = <<>> THEN [nan |-> TRUE, neg |-> FALSE, abs |-> DblZero]
  ELSE [nan |-> FALSE,
        neg |-> Head(str) = "-",
        abs |-> DecimalValue(DigitsToNat(ip \o fp, <<>>), Len(fp))]

ParseFraction(str, body, ip) ==
  ParseDecimal(str, ip, FractionDigits(SubSeq(body, Len(ip) + 1, Len(body))))

ParseUnsigned(str, body) == ParseFraction(str, body, DigitPrefix(body))

parseFloat(str) == ParseUnsigned(str, Unsigned(str))

(***************************************************************************)
(* The session navigator.                                                  *)
(***************************************************************************)
WELCOME == "welcome"
AGE     == "age"
WEIGHT  == "weight"
HEIGHT  == "height"
RESULT  == "result"
TIPS    == "tips"
HISTORY == "history"

STATES == {WELCOME, AGE, WEIGHT, HEIGHT, RESULT, TIPS, HISTORY}

ACTIVE     == "active"
TERMINATED == "terminated"
EXPIRED    == "expired"

THIRTY_MINUTES == 30 * 60 * 1000

\* null is <<>> and a value v is <<v>>
Null == <<>>
Some(v) == <<v>>

\* obj[k] = v and delete obj[k] on a JavaScript object used as a map
Put(f, k, v) == [x \in DOMAIN f \cup {k} |-> IF x = k THEN v ELSE f[x]]
Del(f, k) == [x \in DOMAIN f \ {k} |-> f[x]]

\* MESSAGES[lang][key], its %s filled with args; the text starts with its marker
CONKeys == {"WELCOME", "ENTER_AGE", "ENTER_WEIGHT", "ENTER_HEIGHT", "BMI_RESULT",
            "HEALTH_TIPS", "HISTORY"}
ENDKeys == {"INVALID", "INVALID_CHOICE", "ERROR", "GOODBYE", "SESSION_ENDED"}

Marker(key) == IF key \in CONKeys THEN "CON" ELSE "END"

MESSAGES(lang, key, args) ==
  [marker |-> Marker(key), lang |-> lang, key |-> key, args |-> args]

initializeSession(sessionId, phoneNumber, t) ==
  [sessionId       |-> sessionId,
   phoneNumber     |-> phoneNumber,
   state           |-> WELCOME,
   language        |-> "english",
   age             |-> Null,
   weight          |-> Null,
   height          |-> Null,
   bmi             |-> Null,
   category        |-> Null,
   navigationStack |-> <<>>,
   lastActivity    |-> t]

\* a sweep that deletes nothing
cleanupMemorySessions_keepsAll(ss, t) == ss

\* a sweep that takes 30 minutes for too old already
cleanupMemorySessions_atThirty(ss, t) ==
  [sid \in {x \in DOMAIN ss : ~(t - ss[x].lastActivity >= THIRTY_MINUTES)} |-> ss[sid]]

cleanupMemorySessions(ss, t) ==
  [sid \in {x \in DOMAIN ss : ~(t - ss[x].lastActivity > THIRTY_MINUTES)} |-> ss[sid]]

\* a push of the state entered instead of the state left
pushToNavigationStack_pushesEntered(session, state) ==
  [session EXCEPT
     !.navigationStack = IF session.state # state THEN Append(@, state) ELSE @,
     !.state = state]

\* a move to the next state that pushes nothing when it leaves WELCOME
pushToNavigationStack_notFromWelcome(session, state) ==
  [session EXCEPT
     !.navigationStack = IF session.state # state /\ session.state # WELCOME
                           THEN Append(@, session.state) ELSE @,
     !.state = state]

pushToNavigationStack(session, state) ==
  [session EXCEPT
     !.navigationStack = IF session.state # state THEN Append(@, session.state) ELSE @,
     !.state = state]

\* a WEIGHT case that leaves the weight
clearDataForState_keepsWeight(session, state) ==
  CASE state = WELCOME ->
         [session EXCEPT !.language = "english", !.age = Null, !.weight = Null,
                         !.height = Null, !.bmi = Null, !.category = Null]
    [] state = AGE ->
         [session EXCEPT !.age = Null, !.weight = Null, !.height = Null,
                         !.bmi = Null, !.category = Null]
    [] state = WEIGHT ->
         [session EXCEPT !.height = Null, !.bmi = Null, !.category = Null]
    [] state = HEIGHT ->
         [session EXCEPT !.height = Null, !.bmi = Null, !.category = Null]
    [] OTHER -> session

clearDataForState(session, state) ==
  CASE state = WELCOME ->
         [session EXCEPT !.language = "english", !.age = Null, !.weight = Null,
                         !.height = Null, !.bmi = Null, !.category = Null]
    [] state = AGE ->
         [session EXCEPT !.age = Null, !.weight = Null, !.height = Null,
                         !.bmi = Null, !.category = Null]
    [] state = WEIGHT ->
         [session EXCEPT !.weight = Null, !.height = Null, !.bmi = Null,
                         !.category = Null]
    [] state = HEIGHT ->
         [session EXCEPT !.height = Null, !.bmi = Null, !.category = Null]
    [] OTHER -> session

\* a reset that forgets to empty the stack
resetToWelcome_keepsStack(session) ==
  [session EXCEPT !.state = WELCOME,
                  !.language = "english", !.age = Null, !.weight = Null,
                  !.height = Null, !.bmi = Null, !.category = Null]

resetToWelcome(session) ==
  [session EXCEPT !.state = WELCOME, !.navigationStack = <<>>,
                  !.language = "english", !.age = Null, !.weight = Null,
                  !.height = Null, !.bmi = Null, !.category = Null]

\* a way back that leaves the state gone back to on the stack
goBackToPreviousState_keepsStack(session) ==
  IF Len(session.navigationStack) > 0
    THEN LET previousState == session.navigationStack[Len(session.navigationStack)]
         IN clearDataForState([session EXCEPT !.state = previousState], previousState)
    ELSE resetToWelcome(session)

goBackToPreviousState(session) ==
  IF Len(session.navigationStack) > 0
    THEN LET previousState == session.navigationStack[Len(session.navigationStack)]
         IN clearDataForState(
              [session EXCEPT
                 !.navigationStack = SubSeq(@, 1, Len(@) - 1),
                 !.state = previousState],
              previousState)
    ELSE resetToWelcome(session)

Hundred == DblOfInt(100)

\* bmi is the string toFixed(1) gives, kept as its number of tenths; the
\* comparisons convert that string back to a number, and a one-decimal
\* string is below 18.5, 25 or 30 exactly when its tenths are below 185,
\* 250 or 300.
\* 25.0 still called normal
Category_lateOverweight(bmi) ==
  IF bmi < 185 THEN "underweight"
  ELSE IF bmi >= 185 /\ bmi <= 250 THEN "normal"
  ELSE IF bmi > 250 /\ bmi < 300 THEN "overweight"
  ELSE "obese"

Category(bmi) ==
  IF bmi < 185 THEN "underweight"
  ELSE IF bmi >= 185 /\ bmi < 250 THEN "normal"
  ELSE IF bmi >= 250 /\ bmi < 300 THEN "overweight"
  ELSE "obese"

BMIResult(bmi) == [bmi |-> bmi, category |-> Category(bmi)]

\* the weight divided by the height, not by its square
BMIOfMetres_notSquared(weight, heightM) ==
  BMIResult(toFixed1(DblDiv(weight, heightM)))

BMIOfMetres(weight, heightM) ==
  BMIResult(toFixed1(DblDiv(weight, DblMul(heightM, heightM))))

calculateBMI(weight, height) == BMIOfMetres(weight, DblDiv(height, Hundred))

getCategoryTranslation(category, language) ==
  IF language = "kinyarwanda"
    THEN CASE category = "underweight" -> "Ibiro bike"
           [] category = "normal"      -> "Bisanzwe"
           [] category = "overweight"  -> "Ibiro byinshi"
           [] category = "obese"       -> "Umunani"
    ELSE CASE category = "underweight" -> "Underweight"
           [] category = "normal"      -> "Normal"
           [] category = "overweight"  -> "Overweight"
           [] category = "obese"       -> "Obese"

\* a fall-through that sends the welcome prompt of the session's language
getStateResponse_localWelcome(session) ==
  LET lang == session.language
      same(text) == [text |-> text, session |-> session]
  IN CASE session.state = WELCOME -> same(MESSAGES("english", "WELCOME", <<>>))
       [] session.state = AGE     -> same(MESSAGES(lang, "ENTER_AGE", <<>>))
       [] session.state = WEIGHT  -> same(MESSAGES(lang, "ENTER_WEIGHT", <<>>))
       [] session.state = HEIGHT  -> same(MESSAGES(lang, "ENTER_HEIGHT", <<>>))
       [] session.state = RESULT /\ session.bmi # Null /\ session.category # Null ->
            same(MESSAGES(lang, "BMI_RESULT",
                          <<session.bmi[1],
                            getCategoryTranslation(session.category[1], lang)>>))
       [] session.state = TIPS /\ session.category # Null ->
            same(MESSAGES(lang, "HEALTH_TIPS", <<session.category[1]>>))
       [] OTHER ->
            [text |-> MESSAGES(lang, "WELCOME", <<>>),
             session |-> resetToWelcome(session)]

\* The prompt of the session's state and the session as the call leaves it.
getStateResponse(session) ==
  LET lang == session.language
      same(text) == [text |-> text, session |-> session]
  IN CASE session.state = WELCOME -> same(MESSAGES("english", "WELCOME", <<>>))
       [] session.state = AGE     -> same(MESSAGES(lang, "ENTER_AGE", <<>>))
       [] session.state = WEIGHT  -> same(MESSAGES(lang, "ENTER_WEIGHT", <<>>))
       [] session.state = HEIGHT  -> same(MESSAGES(lang, "ENTER_HEIGHT", <<>>))
       [] session.state = RESULT /\ session.bmi # Null /\ session.category # Null ->
            same(MESSAGES(lang, "BMI_RESULT",
                          <<session.bmi[1],
                            getCategoryTranslation(session.category[1], lang)>>))
       [] session.state = TIPS /\ session.category # Null ->
            same(MESSAGES(lang, "HEALTH_TIPS", <<session.category[1]>>))
       [] OTHER ->
            [text |-> MESSAGES("english", "WELCOME", <<>>),
             session |-> resetToWelcome(session)]

(***************************************************************************)
(* The store: the tables ussd_sessions (one row for each session_id) and   *)
(* bmi_results (rows in the order of their insertion).                     *)
(***************************************************************************)
\* x < y, x = y, x > y as -1, 0, 1 for doubles x, y > 0
DblCmp(x, y) ==
  IF x.e >= y.e THEN Cmp(Shl(x.m, x.e - y.e), y.m)
  ELSE Cmp(x.m, Shl(y.m, y.e - x.e))

createOrUpdateSession(rows, sessionId, phoneNumber, state, language, status, t) ==
  IF sessionId \in DOMAIN rows
    THEN [rows EXCEPT ![sessionId] =
            [@ EXCEPT !.current_state = state, !.language = language,
                      !.status = status, !.updated_at = t]]
    ELSE Put(rows, sessionId,
             [phone_number |-> phoneNumber, current_state |-> state,
              language |-> language, status |-> status, updated_at |-> t])

updateSessionStatus(rows, sessionId, status, t) ==
  IF sessionId \in DOMAIN rows
    THEN [rows EXCEPT ![sessionId] = [@ EXCEPT !.status = status, !.updated_at = t]]
    ELSE rows

cleanupOldSessions(rows, t) ==
  [sid \in DOMAIN rows |->
     IF rows[sid].updated_at < t - THIRTY_MINUTES /\ rows[sid].status = ACTIVE
       THEN [rows[sid] EXCEPT !.status = EXPIRED]
       ELSE rows[sid]]

\* The columns of bmi_results: height and weight DECIMAL(5,2), bmi
\* DECIMAL(4,1), session_id a foreign key to ussd_sessions.  A value whose
\* rounding to the column's scale needs more digits than the column has is
\* refused with an error, and so is a session_id without a row.
NumericLimit == RoundRat(FromInt(999995), FromInt(1000), 0)

InsertFails(rows, sessionId, height, weight, bmi) ==
  \/ sessionId \notin DOMAIN rows
  \/ DblCmp(height, NumericLimit) >= 0
  \/ DblCmp(weight, NumericLimit) >= 0
  \/ bmi >= 10000

saveBMIResult(results, sessionId, phoneNumber, age, height, weight, bmi, category, t) ==
  Append(results,
         [session_id |-> sessionId, phone_number |-> phoneNumber, age |-> age,
          height |-> height, weight |-> weight, bmi |-> bmi, category |-> category,
          created_at |-> t])

\* The rows of phoneNumber, the newest first, limit of them at most.
RECURSIVE Newest(_, _, _)
Newest(results, phoneNumber, limit) ==
  IF results = <<>> \/ limit = 0 THEN <<>>
  ELSE LET r == results[Len(results)]
           older == SubSeq(results, 1, Len(results) - 1)
       IN IF r.phone_number = phoneNumber
            THEN <<r>> \o Newest(older, phoneNumber, limit - 1)
            ELSE Newest(older, phoneNumber, limit)

\* the three newest rows of the table, whoever the caller is
getBMIHistory_anyCaller(results, phoneNumber) ==
  [i \in 1 .. (IF Len(results) < 3 THEN Len(results) ELSE 3) |->
     results[Len(results) + 1 - i]]

getBMIHistory(results, phoneNumber) == Newest(results, phoneNumber, 3)

(***************************************************************************)
(* The callers.                                                            *)
(***************************************************************************)
SessionIds == {"s1"}
Phones     == {"p1"}

\* what callers type: in any order (Texts), while time passes (TimeTexts),
\* and as a caller who walks through the dialog (Scripts)
Texts ==
  { <<>>, <<"0">>, <<"0", "0">>, <<"1">>, <<"2">>, <<"7", "0">>,
    <<"-", "5">>, <<"a", "b", "c">>, <<"1", "*", "7", "0">> }

TimeTexts == { <<"1">>, <<"7", "0">>, <<"0">> }

\* numbers at and around the limits of age, weight and height, and numbers
\* followed or cut by other characters
EntryTexts ==
  { <<"1">>, <<"1", "2", "0">>, <<"1", "2", "1">>, <<"3", "0", "0">>,
    <<"3", "0", "0", ".", "1">>, <<"1", "0", "0", "0">>, <<"1", "0", "0", "0", ".", "1">>,
    <<"2", "5", "a", "b", "c">>, <<"1", "2", ".", "5">> }

\* what the caller of the failing store sends
FailTexts == { <<"1">>, <<"7", "0">>, <<"0">> }

Languages   == { <<"1">>, <<"2">> }
DialAges    == { <<"1">>, <<"2", "5">>, <<"1", "2", "0">> }
DialWeights == { <<"4", "8">>, <<"7", "0">>, <<"7", "0", ".", "5">> }
DialHeights == { <<"1">>, <<"1", "6", "0">>, <<"1", "7", "0">> }

Scripts ==
  { <<l, a, wt, ht, <<"0">>, a, wt, ht>> :
      l \in Languages, a \in DialAges, wt \in DialWeights, ht \in DialHeights }

TickSteps == {THIRTY_MINUTES, THIRTY_MINUTES + 1}

\* calculateBMI on the numbers the callers above can type, computed once
Last(parts) == parts[Len(parts)]

\* the oldest token instead of the newest
LastSegment_first(text) == split(text)[1]

LastSegment(text) == Last(split(text))

TypedNumbers ==
  { n.abs : n \in { x \in { parseFloat(tok) :
                             tok \in {LastSegment(text) :
                                         text \in Texts \cup TimeTexts \cup EntryTexts}
                                       \cup Languages \cup DialAges
                                       \cup DialWeights \cup DialHeights } :
                      ~x.nan /\ x.abs.m # <<>> } }

BMITable == { <<wt, ht, calculateBMI(wt, ht)>> : wt \in TypedNumbers, ht \in TypedNumbers }

BMIOf(weight, height) ==
  IF weight \in TypedNumbers /\ height \in TypedNumbers
  THEN (CHOOSE r \in BMITable : r[1] = weight /\ r[2] = height)[3]
  ELSE calculateBMI(weight, height)


(***************************************************************************)
(* The request handler.  w is the world a request works on: the session    *)
(* map, the two tables, and the pool: fails holds the numbers of the       *)
(* request's pool.query calls that reject (a failing or timed-out store),  *)
(* calls counts the calls made, thrown says that an exception is on its    *)
(* way to a catch, gone is the session object that delete took out of the  *)
(* map.  A handler gives the world it leaves, its response and  *)
(* whether it threw; what follows a throw in the code is skipped.          *)
(***************************************************************************)
World(ss, rs, res, fails) ==
  [sessions |-> ss, rows |-> rs, results |-> res,
   fails |-> fails, calls |-> 0, thrown |-> FALSE, gone |-> Null]

\* the next pool.query rejects
Failing(w) == (w.calls + 1) \in w.fails
Called(w) == [w EXCEPT !.calls = @ + 1]

Reply(w, response) == [w |-> w, response |-> response, thrown |-> w.thrown]
Throw(w) == [w |-> [w EXCEPT !.thrown = TRUE], response |-> Null, thrown |-> TRUE]

\* await createOrUpdateSession(session.sessionId, session.phoneNumber,
\* session.state, session.language, ACTIVE) on the session as it now is
Persist(w, session, t) ==
  IF w.thrown THEN w
  ELSE IF Failing(w)
    THEN [Called(w) EXCEPT !.sessions = Put(@, session.sessionId, session),
                           !.thrown = TRUE]
    ELSE [Called(w) EXCEPT
            !.sessions = Put(@, session.sessionId, session),
            !.rows = createOrUpdateSession(@, session.sessionId, session.phoneNumber,
                                           session.state, session.language, ACTIVE, t)]

\* the row is marked and the session stays in the map
Terminate_keepsSession(w, sessionId, t) ==
  IF w.thrown THEN w
  ELSE IF Failing(w) THEN [Called(w) EXCEPT !.thrown = TRUE]
  ELSE [Called(w) EXCEPT !.rows = updateSessionStatus(@, sessionId, TERMINATED, t)]

\* await updateSessionStatus(sessionId, TERMINATED); delete sessions[sessionId]
Terminate(w, sessionId, t) ==
  IF w.thrown THEN w
  ELSE IF Failing(w) THEN [Called(w) EXCEPT !.thrown = TRUE]
  ELSE [Called(w) EXCEPT !.rows = updateSessionStatus(@, sessionId, TERMINATED, t),
                         !.sessions = Del(@, sessionId),
                         !.gone = IF sessionId \in DOMAIN w.sessions
                                    THEN Some(w.sessions[sessionId]) ELSE @]

\* goBackToPreviousState, createOrUpdateSession, then getStateResponse: the
\* row is written with the state gone back to, the prompt can reset it after
Shown(w, sessionId, shown) ==
  IF w.thrown THEN Reply(w, shown.text)
  ELSE Reply([w EXCEPT !.sessions = Put(@, sessionId, shown.session)], shown.text)

BackTo(w, back, t) == Shown(Persist(w, back, t), back.sessionId, getStateResponse(back))

GoBack(w, session, t) == BackTo(w, goBackToPreviousState(session), t)

\* a WELCOME without the branch for "0"
handleWelcomeState_noBack(w, session, input, t) ==
  IF input = <<"1">> THEN
    Reply(Persist(w, pushToNavigationStack([session EXCEPT !.language = "kinyarwanda"], AGE), t),
          MESSAGES("kinyarwanda", "ENTER_AGE", <<>>))
  ELSE IF input = <<"2">> THEN
    Reply(Persist(w, pushToNavigationStack([session EXCEPT !.language = "english"], AGE), t),
          MESSAGES("english", "ENTER_AGE", <<>>))
  ELSE
    Reply(Terminate(w, session.sessionId, t), MESSAGES("english", "INVALID", <<>>))

\* a WELCOME that takes "2" for Kinyarwanda as well
handleWelcomeState_oneLanguage(w, session, input, t) ==
  IF input = <<"0">> THEN
    Reply(Persist(w, session, t), MESSAGES("english", "WELCOME", <<>>))
  ELSE IF input \in {<<"1">>, <<"2">>} THEN
    Reply(Persist(w, pushToNavigationStack([session EXCEPT !.language = "kinyarwanda"], AGE), t),
          MESSAGES("kinyarwanda", "ENTER_AGE", <<>>))
  ELSE
    Reply(Terminate(w, session.sessionId, t), MESSAGES("english", "INVALID", <<>>))

handleWelcomeState(w, session, input, t) ==
  IF input = <<"0">> THEN
    Reply(Persist(w, session, t), MESSAGES("english", "WELCOME", <<>>))
  ELSE IF input = <<"1">> THEN
    Reply(Persist(w, pushToNavigationStack([session EXCEPT !.language = "kinyarwanda"], AGE), t),
          MESSAGES("kinyarwanda", "ENTER_AGE", <<>>))
  ELSE IF input = <<"2">> THEN
    Reply(Persist(w, pushToNavigationStack([session EXCEPT !.language = "english"], AGE), t),
          MESSAGES("english", "ENTER_AGE", <<>>))
  ELSE
    Reply(Terminate(w, session.sessionId, t), MESSAGES("english", "INVALID", <<>>))

\* handleAgeState after const age = parseInt(input)
AgeEntered(w, session, age, t) ==
  IF ~age.nan /\ age.v > 0 /\ age.v <= 120 THEN
    Reply(Persist(w, pushToNavigationStack([session EXCEPT !.age = Some(age.v)], WEIGHT), t),
          MESSAGES(session.language, "ENTER_WEIGHT", <<>>))
  ELSE
    Reply(Terminate(w, session.sessionId, t), MESSAGES(session.language, "INVALID", <<>>))

handleAgeState(w, session, input, t) ==
  IF input = <<"0">> THEN GoBack(w, session, t)
  ELSE AgeEntered(w, session, parseInt(input), t)

\* a weight test that forgets the sign
WeightEntered_anySign(w, session, weight, t) ==
  IF ~weight.nan /\ weight.abs.m # <<>> /\ DblLeqInt(weight.abs, 1000) THEN
    Reply(Persist(w, pushToNavigationStack([session EXCEPT !.weight = Some(weight.abs)],
                                           HEIGHT), t),
          MESSAGES(session.language, "ENTER_HEIGHT", <<>>))
  ELSE
    Reply(Terminate(w, session.sessionId, t), MESSAGES(session.language, "INVALID", <<>>))

\* handleWeightState after const weight = parseFloat(input)
WeightEntered(w, session, weight, t) ==
  IF ~weight.nan /\ ~weight.neg /\ weight.abs.m # <<>> /\ DblLeqInt(weight.abs, 1000) THEN
    Reply(Persist(w, pushToNavigationStack([session EXCEPT !.weight = Some(weight.abs)],
                                           HEIGHT), t),
          MESSAGES(session.language, "ENTER_HEIGHT", <<>>))
  ELSE
    Reply(Terminate(w, session.sessionId, t), MESSAGES(session.language, "INVALID", <<>>))

handleWeightState(w, session, input, t) ==
  IF input = <<"0">> THEN GoBack(w, session, t)
  ELSE WeightEntered(w, session, parseFloat(input), t)

\* handleHeightState from await saveBMIResult(...) on: session has its
\* height, bmi and category
ResultSaved(w, session, t) ==
  IF \/ Failing(w)
     \/ InsertFails(w.rows, session.sessionId, session.height[1], session.weight[1],
                    session.bmi[1])
    THEN Throw([Called(w) EXCEPT !.sessions = Put(@, session.sessionId, session)])
    ELSE Reply(Persist([Called(w) EXCEPT !.results =
                          saveBMIResult(@, session.sessionId, session.phoneNumber,
                                        session.age, session.height[1], session.weight[1],
                                        session.bmi[1], session.category[1], t)],
                       pushToNavigationStack(session, RESULT), t),
               MESSAGES(session.language, "BMI_RESULT",
                        <<session.bmi[1],
                          getCategoryTranslation(session.category[1], session.language)>>))

\* handleHeightState after const { bmi, category } = calculateBMI(...)
HeightAccepted(w, session, height, r, t) ==
  ResultSaved(w, [session EXCEPT !.height = Some(height), !.bmi = Some(r.bmi),
                                 !.category = Some(r.category)], t)

\* handleHeightState after const height = parseFloat(input)
HeightEntered(w, session, height, t) ==
  IF ~height.nan /\ ~height.neg /\ height.abs.m # <<>> /\ DblLeqInt(height.abs, 300) THEN
    HeightAccepted(w, session, height.abs, BMIOf(session.weight[1], height.abs), t)
  ELSE
    Reply(Terminate(w, session.sessionId, t), MESSAGES(session.language, "INVALID", <<>>))

handleHeightState(w, session, input, t) ==
  IF input = <<"0">> THEN GoBack(w, session, t)
  ELSE HeightEntered(w, session, parseFloat(input), t)

\* the lines of the history prompt: the date, bmi and translated category of
\* each record
historyText(history, lang) ==
  [i \in 1..Len(history) |->
     <<history[i].created_at, history[i].bmi,
       getCategoryTranslation(history[i].category, lang)>>]

\* a new calculation that keeps the weight
NewCalculation_keepsWeight(session) ==
  [session EXCEPT !.age = Null, !.height = Null, !.bmi = Null, !.category = Null]

\* session.age = null; ... session.category = null
NewCalculation(session) ==
  [session EXCEPT !.age = Null, !.weight = Null, !.height = Null,
                  !.bmi = Null, !.category = Null]

\* handleResultState from const history = await getBMIHistory(...) on; a
\* failing query gives the empty history
HistoryShown(w, session) ==
  IF w.thrown THEN Reply(w, Null)
  ELSE Reply(Called(w),
             MESSAGES(session.language, "HISTORY",
                      historyText(IF Failing(w) THEN <<>>
                                  ELSE getBMIHistory(w.results, session.phoneNumber),
                                  session.language)))

\* a result screen that answers an unknown choice and lets the dialog go on
handleResultState_lenient(w, session, input, t) ==
  IF input = <<"0">> THEN
    Reply(Persist(w, pushToNavigationStack(NewCalculation(session), AGE), t),
          MESSAGES(session.language, "ENTER_AGE", <<>>))
  ELSE IF input = <<"1">> THEN
    Reply(Persist(w, pushToNavigationStack(session, TIPS), t),
          MESSAGES(session.language, "HEALTH_TIPS", session.category))
  ELSE IF input = <<"2">> THEN
    HistoryShown(Persist(w, pushToNavigationStack(session, HISTORY), t), session)
  ELSE
    Reply(w, MESSAGES(session.language, "INVALID_CHOICE", <<>>))

handleResultState(w, session, input, t) ==
  IF input = <<"0">> THEN
    Reply(Persist(w, pushToNavigationStack(NewCalculation(session), AGE), t),
          MESSAGES(session.language, "ENTER_AGE", <<>>))
  ELSE IF input = <<"1">> THEN
    Reply(Persist(w, pushToNavigationStack(session, TIPS), t),
          MESSAGES(session.language, "HEALTH_TIPS", session.category))
  ELSE IF input = <<"2">> THEN
    HistoryShown(Persist(w, pushToNavigationStack(session, HISTORY), t), session)
  ELSE
    Reply(Terminate(w, session.sessionId, t),
          MESSAGES(session.language, "INVALID_CHOICE", <<>>))

\* an invalid choice that ends the dialog and keeps the session in the map
handleTipsState_keepsSession(w, session, input, t) ==
  IF input = <<"0">> THEN GoBack(w, session, t)
  ELSE Reply(Terminate_keepsSession(w, session.sessionId, t),
             MESSAGES(session.language, "INVALID_CHOICE", <<>>))

handleTipsState(w, session, input, t) ==
  IF input = <<"0">> THEN GoBack(w, session, t)
  ELSE Reply(Terminate(w, session.sessionId, t),
             MESSAGES(session.language, "INVALID_CHOICE", <<>>))

handleHistoryState(w, session, input, t) ==
  IF input = <<"0">> THEN GoBack(w, session, t)
  ELSE Reply(Terminate(w, session.sessionId, t),
             MESSAGES(session.language, "INVALID_CHOICE", <<>>))

\* resetToWelcome(session); await createOrUpdateSession(...); the welcome prompt
Restart(w, session, phoneNumber, t) ==
  IF Failing(w)
    THEN Throw([Called(w) EXCEPT !.sessions = Put(@, session.sessionId, session)])
    ELSE Reply([Called(w) EXCEPT
                  !.sessions = Put(@, session.sessionId, session),
                  !.rows = createOrUpdateSession(@, session.sessionId, phoneNumber,
                                                 session.state, session.language,
                                                 ACTIVE, t)],
               MESSAGES("english", "WELCOME", <<>>))

\* processUSSDFlow from the test of the empty text on
Dispatch(w, session, text, lastInput, phoneNumber, t) ==
  IF text = <<>> THEN Restart(w, resetToWelcome(session), phoneNumber, t)
  ELSE IF lastInput = <<"0", "0">> THEN
    Reply(Terminate(w, session.sessionId, t), MESSAGES(session.language, "GOODBYE", <<>>))
  ELSE CASE session.state = WELCOME -> handleWelcomeState(w, session, lastInput, t)
         [] session.state = AGE     -> handleAgeState(w, session, lastInput, t)
         [] session.state = WEIGHT  -> handleWeightState(w, session, lastInput, t)
         [] session.state = HEIGHT  -> handleHeightState(w, session, lastInput, t)
         [] session.state = RESULT  -> handleResultState(w, session, lastInput, t)
         [] session.state = TIPS    -> handleTipsState(w, session, lastInput, t)
         [] session.state = HISTORY -> handleHistoryState(w, session, lastInput, t)
         [] OTHER -> Restart(w, resetToWelcome(session), phoneNumber, t)

\* processUSSDFlow from session.lastActivity = Date.now() on: the two
\* sweeps, then the dispatch
Touched(w, session, text, phoneNumber, t) ==
  Dispatch([Called(w) EXCEPT
              !.sessions = cleanupMemorySessions(Put(@, session.sessionId, session), t),
              !.rows = IF Failing(w) THEN @ ELSE cleanupOldSessions(@, t)],
           session, text, LastSegment(text), phoneNumber, t)

\* the catch block of processUSSDFlow; when its updateSessionStatus rejects,
\* the catch block of the request handler sends the same response
Rescued(w, response) == Reply([w EXCEPT !.thrown = FALSE], response)

Caught(out, sessionId, t) ==
  IF out.thrown
    THEN Rescued(Terminate([out.w EXCEPT !.thrown = FALSE], sessionId, t),
                 MESSAGES("english", "ERROR", <<>>))
    ELSE out

\* processUSSDFlow from the return of await cleanupOldSessions() on, when
\* the request was suspended there
Resumed(w, session, text, sessionId, phoneNumber, t) ==
  Caught(Dispatch([Called(w) EXCEPT !.rows = cleanupOldSessions(@, t)],
                  session, text, LastSegment(text), phoneNumber, t),
         sessionId, t)

processUSSDFlow(w, text, sessionId, phoneNumber, t) ==
  Caught(Touched(w,
                 [(IF sessionId \in DOMAIN w.sessions THEN w.sessions[sessionId]
                   ELSE initializeSession(sessionId, phoneNumber, t))
                    EXCEPT !.lastActivity = t],
                 text, phoneNumber, t),
         sessionId, t)

(***************************************************************************)
(* The server: requests handled one at a time, the clock, the two timers.  *)
(***************************************************************************)
MaxStack   == 6
MaxResults == 1
MaxTicks   == 2
\* the store calls of one request that can be told to fail
MaxCalls   == 4
\* the requests suspended at a store call at one time
MaxInFlight == 2
\* the results of earlier dialogs in bmi_results
MaxLog == 4
\* the milliseconds that pass while requests without a sessionId arrive
MaxMs == 1

\* weights and heights in kilograms and centimetres for calculateBMI alone
Weights == {1, 48, 50, 70, 72, 74, 80, 99, 100, 120, 1000}
Heights == {1, 40, 100, 150, 160, 170, 199, 200, 300}

VARIABLES
  sessions,   \* the in-memory map: sessionId -> session
  rows,       \* table ussd_sessions: session_id -> row
  results,    \* table bmi_results
  now,        \* Date.now(), in milliseconds
  response,   \* the response to the last request
  last,       \* the last step taken
  dial,       \* a scripted caller: the texts to send and the responses so far
  calc,       \* a call of calculateBMI: its arguments and its result
  inflight,   \* the requests suspended at await cleanupOldSessions()
  orphans     \* the session objects deleted from the map that a suspended
              \* request still holds

vars == <<sessions, rows, results, now, response, last, dial, calc, inflight, orphans>>

NoOrphans == [k \in 1 .. MaxInFlight |-> Null]

NoDial == [script |-> <<>>, got |-> <<>>]

Init ==
  /\ sessions = <<>>
  /\ inflight = <<>>
  /\ orphans = NoOrphans
  /\ rows = <<>>
  /\ results = <<>>
  /\ now = 0
  /\ response = Null
  /\ last = [op |-> "start"]
  /\ dial = NoDial
  /\ calc = Null

\* req.on('end'): one request, from its first line to its response
Respond(out, sessionId, phoneNumber, text, fails) ==
  /\ sessions' = out.w.sessions
  /\ rows' = out.w.rows
  /\ results' = out.w.results
  /\ response' = Some(out.response)
  /\ last' = [op |-> "request", sessionId |-> sessionId,
              phoneNumber |-> phoneNumber, text |-> text,
              failed |-> fails \cap (1 .. out.w.calls) # {},
              before |-> IF sessionId \in DOMAIN sessions
                           THEN Some(sessions[sessionId]) ELSE Null]
  /\ UNCHANGED <<now, calc, inflight, orphans>>

\* a request during which the store calls numbered in fails reject
Served(sessionId, phoneNumber, text, fails) ==
  Respond(processUSSDFlow(World(sessions, rows, results, fails),
                          text, sessionId, phoneNumber, now),
          sessionId, phoneNumber, text, fails)

\* a request whose store calls all succeed
Handle(sessionId, phoneNumber, text) == Served(sessionId, phoneNumber, text, {})

\* a request of a caller who types what they like, as long as the tables
\* and the stacks stay small
Request(sessionId, phoneNumber, text) ==
  /\ Handle(sessionId, phoneNumber, text)
  /\ Len(results') <= MaxResults
  /\ \A sid \in DOMAIN sessions' : Len(sessions'[sid].navigationStack) <= MaxStack
  /\ UNCHANGED dial

\* a request of the same caller while the store is failing: the calls
\* numbered in fails reject
RequestFailing(sessionId, phoneNumber, text, fails) ==
  /\ Served(sessionId, phoneNumber, text, fails)
  /\ Len(results') <= MaxResults
  /\ \A sid \in DOMAIN sessions' : Len(sessions'[sid].navigationStack) <= MaxStack
  /\ UNCHANGED dial

\* the scripted caller sends the next text and keeps the response
Dial(sessionId, phoneNumber) ==
  /\ Len(dial.got) < Len(dial.script)
  /\ Handle(sessionId, phoneNumber, dial.script[Len(dial.got) + 1])
  /\ dial' = [dial EXCEPT !.got = Append(@, response'[1])]

\* setInterval(cleanupMemorySessions, 5 * 60 * 1000)
SweepMemory ==
  /\ sessions' = cleanupMemorySessions(sessions, now)
  /\ last' = [op |-> "sweepMemory"]
  /\ UNCHANGED <<rows, results, now, response, dial, calc, inflight, orphans>>

\* setInterval(cleanupOldSessions, 5 * 60 * 1000)
SweepStore ==
  /\ rows' = cleanupOldSessions(rows, now)
  /\ last' = [op |-> "sweepStore"]
  /\ UNCHANGED <<sessions, results, now, response, dial, calc, inflight, orphans>>

\* time passes
Tick(d) ==
  /\ now \div THIRTY_MINUTES < MaxTicks
  /\ now' = now + d
  /\ last' = [op |-> "tick"]
  /\ UNCHANGED <<sessions, rows, results, response, dial, calc, inflight, orphans>>

\* calculateBMI(weight, height) is called
Calculate ==
  /\ calc # Null
  /\ calc[1].out = Null
  /\ calc' = Some([calc[1] EXCEPT
                     !.out = Some(calculateBMI(DblOfInt(calc[1].weight),
                                               DblOfInt(calc[1].height)))])
  /\ last' = [op |-> "calculate"]
  /\ UNCHANGED <<sessions, rows, results, now, response, dial, inflight, orphans>>

\* the session object a suspended request holds: const session =
\* sessions[sessionId], in the map still (ref 0) or deleted from it since
Held(r) == IF r.ref = 0 THEN sessions[r.sessionId] ELSE orphans[r.ref][1]

Without(reqs, i) == SubSeq(reqs, 1, i - 1) \o SubSeq(reqs, i + 1, Len(reqs))

FreeSlot(reqs) ==
  CHOOSE k \in 1 .. MaxInFlight : \A j \in DOMAIN reqs : reqs[j].ref # k

\* the suspended requests that held the map's object of sessionId hold it
\* as orphan k from now on
Detached(reqs, sessionId, k) ==
  [j \in DOMAIN reqs |->
     IF reqs[j].ref = 0 /\ reqs[j].sessionId = sessionId
       THEN [reqs[j] EXCEPT !.ref = k] ELSE reqs[j]]

\* the orphans that a suspended request still holds
Referenced(orphs, reqs) ==
  [k \in 1 .. MaxInFlight |->
     IF \E j \in DOMAIN reqs : reqs[j].ref = k THEN orphs[k] ELSE Null]

\* a request arrives and runs to its first await: lines 1184-1192, while
\* other requests are suspended
Begin(sessionId, phoneNumber, text) ==
  /\ Len(inflight) < MaxInFlight
  /\ sessions' = cleanupMemorySessions(
                    Put(sessions, sessionId,
                        [(IF sessionId \in DOMAIN sessions THEN sessions[sessionId]
                          ELSE initializeSession(sessionId, phoneNumber, now))
                           EXCEPT !.lastActivity = now]),
                    now)
  /\ inflight' = Append(inflight, [sessionId |-> sessionId, phoneNumber |-> phoneNumber,
                                   text |-> text, ref |-> 0])
  /\ last' = [op |-> "begin", sessionId |-> sessionId]
  /\ UNCHANGED <<rows, results, now, response, dial, calc, orphans>>

\* what a resumed request leaves.  It worked on the object it holds: the
\* map sees its changes when the object is in the map, and its delete
\* sessions[sessionId] in any case; an object taken out of the map stays
\* with the suspended requests that hold it.
Finish(r, rest, out) ==
  /\ sessions' = IF r.ref = 0 THEN out.w.sessions
                 ELSE IF r.sessionId \in DOMAIN out.w.sessions THEN sessions
                 ELSE Del(sessions, r.sessionId)
  /\ rows' = out.w.rows
  /\ results' = out.w.results
  /\ response' = Some(out.response)
  /\ IF r.sessionId \in DOMAIN sessions /\ r.sessionId \notin DOMAIN out.w.sessions
       THEN /\ inflight' = Detached(rest, r.sessionId, FreeSlot(rest))
            /\ orphans' = Referenced(
                             [orphans EXCEPT
                                ![FreeSlot(rest)] =
                                  IF r.ref = 0 THEN out.w.gone ELSE Some(sessions[r.sessionId])],
                             inflight')
       ELSE /\ inflight' = rest
            /\ orphans' = Referenced(
                             IF r.ref = 0 THEN orphans
                             ELSE [orphans EXCEPT
                                     ![r.ref] = IF r.sessionId \in DOMAIN out.w.sessions
                                                  THEN Some(out.w.sessions[r.sessionId])
                                                  ELSE out.w.gone],
                             rest)
  /\ last' = [op |-> "resume", sessionId |-> r.sessionId, text |-> r.text]
  /\ Len(results') <= MaxResults
  /\ \A sid \in DOMAIN sessions' : Len(sessions'[sid].navigationStack) <= MaxStack
  /\ UNCHANGED <<now, dial, calc>>

\* a suspended request goes on from await cleanupOldSessions() to its response
Resume(i) ==
  /\ i \in DOMAIN inflight
  /\ Finish(inflight[i], Without(inflight, i),
            Resumed(World(Put(sessions, inflight[i].sessionId, Held(inflight[i])),
                          rows, results, {}),
                    Held(inflight[i]), inflight[i].text, inflight[i].sessionId,
                    inflight[i].phoneNumber, now))

\* Requests in any order, no time passing.
Next == \E sid \in SessionIds, p \in Phones, text \in Texts : Request(sid, p, text)

Spec == Init /\ [][Next]_vars

\* Requests while time passes and the timers fire.
NextTime ==
  \/ \E sid \in SessionIds, p \in Phones, text \in TimeTexts : Request(sid, p, text)
  \/ SweepMemory
  \/ SweepStore
  \/ \E d \in TickSteps : Tick(d)

SpecTime == Init /\ [][NextTime]_vars

\* Requests while the store fails now and then: any of the first MaxCalls
\* store calls of a request can reject.
FailPlans == (SUBSET (1 .. MaxCalls)) \ {{}}

NextFail ==
  \/ \E sid \in SessionIds, p \in Phones, text \in FailTexts : Request(sid, p, text)
  \/ \E sid \in SessionIds, p \in Phones, text \in FailTexts, fails \in FailPlans :
       RequestFailing(sid, p, text, fails)

SpecFail == Init /\ [][NextFail]_vars

\* Requests of a caller who types numbers at the limits and numbers with
\* other characters.
NextEntry == \E sid \in SessionIds, p \in Phones, text \in EntryTexts : Request(sid, p, text)

SpecEntry == Init /\ [][NextEntry]_vars

\* Requests that arrive while others are suspended at their store call.
AsyncTexts == { <<"1">>, <<"7", "0">>, <<"0">>, <<"0", "0">> }

NextAsync ==
  \/ \E sid \in SessionIds, p \in Phones, text \in AsyncTexts : Begin(sid, p, text)
  \/ \E i \in 1 .. MaxInFlight : Resume(i)

SpecAsync == Init /\ [][NextAsync]_vars

\* Callers who send requests for a while and then stop, while the clock
\* goes on and both timers keep firing.
RequestWhileCalling(sessionId, phoneNumber, text) ==
  /\ now \div THIRTY_MINUTES < MaxTicks - 1
  /\ Request(sessionId, phoneNumber, text)

NextLive ==
  \/ \E sid \in SessionIds, p \in Phones, text \in TimeTexts :
       RequestWhileCalling(sid, p, text)
  \/ SweepMemory
  \/ SweepStore
  \/ \E d \in TickSteps : Tick(d)

SpecLive ==
  /\ Init
  /\ [][NextLive]_vars
  /\ WF_vars(SweepMemory)
  /\ WF_vars(SweepStore)
  /\ WF_vars(\E d \in TickSteps : Tick(d))

\* A caller looking at the history, after earlier dialogs of this caller
\* and of another one left their results: each of them walked to RESULT
\* with weight 70 and height 170, one dialog after the other.
HistoryPhones == {"p1", "p2"}
HistoryTexts == { <<"2">>, <<"0">> }

Logs == UNION {[1 .. n -> HistoryPhones] : n \in 0 .. MaxLog}

Walked(sessionId, phoneNumber, result, t) ==
  [session_id |-> sessionId, phone_number |-> phoneNumber, age |-> Some(25),
   height |-> parseFloat(<<"1", "7", "0">>).abs, weight |-> parseFloat(<<"7", "0">>).abs,
   bmi |-> result.bmi, category |-> result.category, created_at |-> t]

Ended(phoneNumber, t) ==
  [phone_number |-> phoneNumber, current_state |-> RESULT, language |-> "english",
   status |-> TERMINATED, updated_at |-> t]

\* the session of the dialog whose result is record
AtResult(record, language, t) ==
  [sessionId       |-> record.session_id,
   phoneNumber     |-> record.phone_number,
   state           |-> RESULT,
   language        |-> language,
   age             |-> record.age,
   weight          |-> Some(record.weight),
   height          |-> Some(record.height),
   bmi             |-> Some(record.bmi),
   category        |-> Some(record.category),
   navigationStack |-> <<WELCOME, AGE, WEIGHT, HEIGHT>>,
   lastActivity    |-> t]

LogAfter(log, result) ==
  [i \in 1 .. Len(log) + 1 |->
     IF i <= Len(log) THEN Walked(IF log[i] = "p1" THEN "o1" ELSE "o2", log[i], result, i)
     ELSE Walked("s1", "p1", result, i)]

InitHistory ==
  /\ inflight = <<>>
  /\ orphans = NoOrphans
  /\ now = MaxLog + 1
  /\ response = Null
  /\ last = [op |-> "start"]
  /\ dial = NoDial
  /\ calc = Null
  /\ \E log \in Logs, language \in {"kinyarwanda", "english"} :
       /\ results = LogAfter(log, BMIOf(parseFloat(<<"7", "0">>).abs, parseFloat(<<"1", "7", "0">>).abs))
       /\ sessions = [sid \in {"s1"} |-> AtResult(results[Len(results)], language, now)]
       /\ rows = [sid \in {"o1", "o2", "s1"} |->
                    IF sid = "s1"
                      THEN [phone_number |-> "p1", current_state |-> RESULT,
                            language |-> language, status |-> ACTIVE, updated_at |-> now]
                      ELSE Ended(IF sid = "o1" THEN "p1" ELSE "p2", 0)]

RequestHistory(sessionId, phoneNumber, text) ==
  /\ Handle(sessionId, phoneNumber, text)
  /\ \A sid \in DOMAIN sessions' : Len(sessions'[sid].navigationStack) <= MaxStack
  /\ UNCHANGED dial

NextHistory ==
  \E sid \in SessionIds, p \in Phones, text \in HistoryTexts : RequestHistory(sid, p, text)

SpecHistory == InitHistory /\ [][NextHistory]_vars

\* Callers whose requests carry no sessionId: the handler takes
\* Date.now().toString() for it.  The clock goes on by milliseconds.
AnonymousTexts == { <<"1">>, <<"0">> }

RequestAnonymous(phoneNumber, text) == Request(ToString(now), phoneNumber, text)

Millisecond ==
  /\ now < MaxMs
  /\ now' = now + 1
  /\ last' = [op |-> "tick"]
  /\ UNCHANGED <<sessions, rows, results, response, dial, calc, inflight, orphans>>

NextAnonymous ==
  \/ \E p \in HistoryPhones, text \in AnonymousTexts : RequestAnonymous(p, text)
  \/ Millisecond

SpecAnonymous == Init /\ [][NextAnonymous]_vars

\* One caller walking through the dialog.
InitDial ==
  /\ sessions = <<>>
  /\ inflight = <<>>
  /\ orphans = NoOrphans
  /\ rows = <<>>
  /\ results = <<>>
  /\ now = 0
  /\ response = Null
  /\ last = [op |-> "start"]
  /\ dial \in {[script |-> sc, got |-> <<>>] : sc \in Scripts}
  /\ calc = Null

NextDial == \E sid \in SessionIds, p \in Phones : Dial(sid, p)

SpecDial == InitDial /\ [][NextDial]_vars

\* calculateBMI alone, on whole kilograms and centimetres.
InitBMI ==
  /\ sessions = <<>>
  /\ inflight = <<>>
  /\ orphans = NoOrphans
  /\ rows = <<>>
  /\ results = <<>>
  /\ now = 0
  /\ response = Null
  /\ last = [op |-> "start"]
  /\ dial = NoDial
  /\ calc \in {Some([weight |-> wt, height |-> ht, out |-> Null]) :
                 wt \in Weights, ht \in Heights}

NextBMI == Calculate

SpecBMI == InitBMI /\ [][NextBMI]_vars

(***************************************************************************)
(* Properties.  After a request, last holds its sessionId, phoneNumber and *)
(* text, the session it found (before, Null when there was none) and       *)
(* whether one of its store calls rejected (failed).                       *)
(***************************************************************************)
Requested == last.op = "request"

\* the last step was a request whose last token is token
Sent(token) == Requested /\ last.text # <<>> /\ LastSegment(last.text) = token

\* the last step was a request that found a session in state
Found(state) == Requested /\ last.before # Null /\ last.before[1].state = state

Kept == Requested /\ last.sessionId \in DOMAIN sessions

Removed ==
  /\ Requested
  /\ last.sessionId \notin DOMAIN sessions
  /\ last.sessionId \in DOMAIN rows => rows[last.sessionId].status = TERMINATED

Current == sessions[last.sessionId]

NoFields(session) ==
  /\ session.age = Null
  /\ session.weight = Null
  /\ session.height = Null
  /\ session.bmi = Null
  /\ session.category = Null

Prompt(lang, key, args) == Some([marker |-> "CON", lang |-> lang, key |-> key, args |-> args])
Final(lang, key) == Some([marker |-> "END", lang |-> lang, key |-> key, args |-> <<>>])

Seventy == <<"7", "0">>
OneSeventy == <<"1", "7", "0">>

ChosenLanguage == IF dial.script[1] = <<"1">> THEN "kinyarwanda" ELSE "english"

\* C1: a caller without a session who selects a language, enters a valid
\* age, then weight 70, then height 170 is in RESULT with bmi 24.2 and
\* category normal, and is shown the BMI-result prompt with 24.2 and the
\* label of normal in the selected language.
C1_WalkToResult ==
  (Len(dial.got) = 4 /\ dial.script[3] = Seventy /\ dial.script[4] = OneSeventy) =>
    /\ Kept
    /\ Current.state = RESULT
    /\ Current.bmi = Some(242)
    /\ Current.category = Some("normal")
    /\ response = Prompt(ChosenLanguage, "BMI_RESULT",
                         <<242, IF ChosenLanguage = "kinyarwanda" THEN "Bisanzwe"
                                ELSE "Normal">>)

C1_Witness ==
  /\ Len(dial.got) = 4
  /\ dial.script[1] = <<"1">>
  /\ dial.script[3] = Seventy
  /\ dial.script[4] = OneSeventy
  /\ dial.got[1].key = "ENTER_AGE"
  /\ dial.got[2].key = "ENTER_WEIGHT"
  /\ dial.got[3].key = "ENTER_HEIGHT"
  /\ response = Prompt("kinyarwanda", "BMI_RESULT", <<242, "Bisanzwe">>)

\* C2: calculateBMI gives the exact quotient w / (h/100)^2 rounded to one
\* decimal, halves upwards: ten times bmi is round(w * 100000 / h^2).
C2_ExactRounding ==
  (calc # Null /\ calc[1].out # Null) =>
    calc[1].out[1].bmi =
      (2 * calc[1].weight * 100000 + calc[1].height * calc[1].height)
        \div (2 * calc[1].height * calc[1].height)

\* C3: calculateBMI gives exactly one category, decided on the rounded bmi:
\* underweight iff bmi < 18.5, normal iff 18.5 <= bmi < 25, overweight iff
\* 25 <= bmi < 30, obese iff bmi >= 30.
C3_CategoryOfRounded ==
  (calc # Null /\ calc[1].out # Null) =>
    LET bmi == calc[1].out[1].bmi
        category == calc[1].out[1].category
    IN /\ category \in {"underweight", "normal", "overweight", "obese"}
       /\ category = "underweight" <=> bmi < 185
       /\ category = "normal" <=> (185 <= bmi /\ bmi < 250)
       /\ category = "overweight" <=> (250 <= bmi /\ bmi < 300)
       /\ category = "obese" <=> bmi >= 300

\* a quotient in [24.95, 25) that is rounded to 25.0 and called overweight
C3_Witness ==
  /\ calc # Null
  /\ calc[1].out # Null
  /\ 2495 * calc[1].height * calc[1].height <= calc[1].weight * 1000000
  /\ calc[1].weight * 1000000 < 2500 * calc[1].height * calc[1].height
  /\ calc[1].out[1] = [bmi |-> 250, category |-> "overweight"]

NumericEntry == {AGE, WEIGHT, HEIGHT}

\* a request that found no session leaves, if any, a session new from WELCOME
StartsFresh ==
  (Requested /\ last.before = Null /\ Kept) =>
    /\ NoFields(Current)
    /\ \/ Current.state = WELCOME /\ Current.navigationStack = <<>>
       \/ Current.state = AGE /\ Current.navigationStack = <<WELCOME>>

InvalidEnds(tokens) ==
  \A state \in NumericEntry, token \in tokens :
    (Found(state) /\ Sent(token)) =>
      /\ response = Final(last.before[1].language, "INVALID")
      /\ Removed

C5_ExitAnywhere ==
  Sent(<<"0", "0">>) =>
    /\ response = Final(IF last.before = Null THEN "english" ELSE last.before[1].language,
                        "GOODBYE")
    /\ Removed
    /\ last.before # Null => rows[last.sessionId].status = TERMINATED

C5_Witness ==
  /\ Sent(<<"0", "0">>)
  /\ Found(HISTORY)
  /\ Len(last.before[1].navigationStack) >= 5
  /\ response = Final("kinyarwanda", "GOODBYE")
  /\ rows[last.sessionId].status = TERMINATED

\* what a request with this text gets when there is no session at all
AsIfAbsent ==
  processUSSDFlow(World(<<>>, <<>>, <<>>, {}),
                  last.text, last.sessionId, last.phoneNumber, now)

\* C6: a request that finds a session whose last activity is more than 30
\* minutes old is answered as if there were no session, and leaves what a
\* request without a session leaves.
C6_StaleIsAbsent ==
  (Requested /\ last.before # Null
     /\ now - last.before[1].lastActivity > THIRTY_MINUTES) =>
    /\ response = Some(AsIfAbsent.response)
    /\ Kept <=> last.sessionId \in DOMAIN AsIfAbsent.w.sessions
    /\ Kept => Current = AsIfAbsent.w.sessions[last.sessionId]

\* C7: "0" in RESULT leaves the session, kept and active, in AGE with age,
\* weight, height, bmi and category cleared; the same age, weight and height
\* entered again give the RESULT response given before.
C7_NewCalculation ==
  /\ (Len(dial.got) = 5 /\ Found(RESULT) /\ Sent(<<"0">>)) =>
       /\ Kept
       /\ Current.state = AGE
       /\ NoFields(Current)
       /\ rows[last.sessionId].status = ACTIVE
       /\ response = Prompt(ChosenLanguage, "ENTER_AGE", <<>>)
  /\ (Len(dial.got) = 8 /\ dial.got[4].key = "BMI_RESULT") =>
       /\ Kept
       /\ Current.state = RESULT
       /\ response = Some(dial.got[4])

C7_Witness ==
  /\ Len(dial.got) = 8
  /\ dial.got[4].key = "BMI_RESULT"
  /\ dial.got[5].key = "ENTER_AGE"
  /\ dial.got[8].key = "BMI_RESULT"
  /\ Len(results) = 2

\* C8: "0" in WELCOME leaves the session as it is, in WELCOME and active,
\* and gets the welcome prompt.
C8_BackAtWelcome ==
  (Sent(<<"0">>) /\ (last.before = Null \/ Found(WELCOME))) =>
    /\ Kept
    /\ Current.state = WELCOME
    /\ Current.navigationStack = <<>>
    /\ last.before # Null => Current = [last.before[1] EXCEPT !.lastActivity = now]
    /\ rows[last.sessionId].status = ACTIVE
    /\ response = Prompt("english", "WELCOME", <<>>)

C8_Witness ==
  /\ Sent(<<"0">>)
  /\ Found(WELCOME)
  /\ last.before[1].navigationStack = <<>>
  /\ Kept
  /\ Current.state = WELCOME
  /\ response = Prompt("english", "WELCOME", <<>>)

\* C9: no request with a token, other than a selection at WELCOME, changes
\* the language of a session it keeps; "0" in AGE, back to WELCOME, leaves
\* it as it was.
C9_LanguageKept ==
  (Requested /\ last.text # <<>> /\ last.before # Null /\ Kept
     /\ ~(Found(WELCOME) /\ (Sent(<<"1">>) \/ Sent(<<"2">>)))) =>
    Current.language = last.before[1].language

\* the state and the stack a request starts from
StateBefore == IF last.before = Null THEN WELCOME ELSE last.before[1].state
StackBefore == IF last.before = Null THEN <<>> ELSE last.before[1].navigationStack

\* C10: a request that pushes on navigationStack pushes the state it leaves,
\* which differs from the state it enters; and the top of a non-empty
\* navigationStack is never the session's state.
C10_TopIsNotState ==
  /\ \A sid \in DOMAIN sessions :
       sessions[sid].navigationStack # <<>> =>
         Last(sessions[sid].navigationStack) # sessions[sid].state
  /\ (Kept /\ Len(Current.navigationStack) = Len(StackBefore) + 1) =>
       /\ Current.navigationStack = Append(StackBefore, StateBefore)
       /\ Current.state # StateBefore

C10_Witness ==
  /\ Kept
  /\ Found(RESULT)
  /\ Current.state = AGE
  /\ Current.navigationStack = Append(StackBefore, RESULT)
  /\ Len(Current.navigationStack) = 5

\* C11: no field downstream of a session's state is set: in AGE and in
\* WELCOME age, weight, height, bmi and category are null, in WEIGHT all of
\* them but age, in HEIGHT height, bmi and category.
C11_NoStaleField ==
  \A sid \in DOMAIN sessions :
    /\ sessions[sid].state \in {WELCOME, AGE} => NoFields(sessions[sid])
    /\ sessions[sid].state = WEIGHT =>
         /\ sessions[sid].weight = Null
         /\ sessions[sid].height = Null
         /\ sessions[sid].bmi = Null
         /\ sessions[sid].category = Null
    /\ sessions[sid].state = HEIGHT =>
         /\ sessions[sid].height = Null
         /\ sessions[sid].bmi = Null
         /\ sessions[sid].category = Null

\* back from HEIGHT: the weight entered before is gone
C11_Witness ==
  /\ Sent(<<"0">>)
  /\ Found(HEIGHT)
  /\ last.before[1].weight # Null
  /\ Kept
  /\ Current.state = WEIGHT
  /\ Current.age # Null
  /\ Current.weight = Null

\* the session a request that goes back passes to getStateResponse
WentBackTo == goBackToPreviousState([last.before[1] EXCEPT !.lastActivity = now])

Unchanging(session) == getStateResponse(session).session = session

\* C12: getStateResponse leaves the session it renders as it was, for every
\* session the handlers pass to it.
C12_PromptKeepsSession ==
  (Sent(<<"0">>) /\ \E state \in {AGE, WEIGHT, HEIGHT, TIPS, HISTORY} : Found(state)) =>
    Unchanging(WentBackTo)

\* a store call of the last request rejected and the caller was sent the
\* error termination
Errored == Requested /\ last.failed /\ response = Final("english", "ERROR")

\* C13: a request during which a step throws, a failing store call included,
\* is answered with the error termination, and its session is removed from
\* the map and marked terminated in the store.
C13_ErrorTerminates == Errored => Removed

\* the session a request starts from: the one it found with its activity
\* refreshed, a fresh one when it found none
AsFound ==
  IF last.before = Null
    THEN initializeSession(last.sessionId, last.phoneNumber, now)
    ELSE [last.before[1] EXCEPT !.lastActivity = now]

\* C14: after a request that a failing store call ended with the error
\* termination, the session is gone from the map or is as the request found
\* it, never advanced by a part of the request.
C14_NoPartialUpdate == Errored => (~Kept \/ Current = AsFound)

\* C15: for any sessionId at most one request is in flight: while a request
\* is suspended at a store call, no other request for the same sessionId
\* has read or changed that session.
C15_OneInFlight ==
  \A i, j \in DOMAIN inflight :
    inflight[i].sessionId = inflight[j].sessionId => i = j

\* C16: when all store calls succeed, every response starts with the
\* continuation or the termination marker, and the marker agrees with the
\* session: absent from the map after END, present after CON.
C16_MarkerIsFate ==
  Requested =>
    /\ response # Null
    /\ response[1].marker \in {"CON", "END"}
    /\ response[1].marker = "END" <=> last.sessionId \notin DOMAIN sessions
    /\ response[1].marker = "CON" <=> Kept

C16_Witness ==
  /\ Found(TIPS)
  /\ Sent(<<"1">>)
  /\ response = Final(last.before[1].language, "INVALID_CHOICE")
  /\ ~Kept

\* texts with the last segment of text and other earlier segments
SameLast(text) ==
  {<<"9", "*">> \o text, <<"1", "*", "2", "*">> \o text}
    \cup (IF Last(split(text)) # <<>> THEN {Last(split(text))} ELSE {})

\* the request just made left what out leaves
SameOutcome(out) ==
  /\ response' = Some(out.response)
  /\ sessions' = out.w.sessions
  /\ rows' = out.w.rows
  /\ results' = out.w.results

\* C17: the outcome of a request with a non-empty text depends on the stored
\* session and the last segment of the text only: any text with the same
\* last segment, whatever its earlier segments and their number, gets the
\* same response and leaves the same session and tables.
C17_LastTokenOnly ==
  [][(last'.op = "request" /\ last'.text # <<>>) =>
       \A other \in SameLast(last'.text) :
         SameOutcome(processUSSDFlow(World(sessions, rows, results, {}), other,
                                     last'.sessionId, last'.phoneNumber, now))]_vars

C17_Witness ==
  /\ Requested
  /\ last.text = <<"1", "*", "7", "0">>
  /\ Found(WEIGHT)
  /\ Kept
  /\ Current.state = HEIGHT
  /\ Current.weight # Null

\* token is an unsigned decimal numeral: digits, then possibly a point and
\* digits
Numeral(token) ==
  /\ DigitPrefix(token) # <<>>
  /\ \/ DigitPrefix(token) = token
     \/ /\ Len(token) > Len(DigitPrefix(token)) + 1
        /\ token[Len(DigitPrefix(token)) + 1] = "."
        /\ \A i \in Len(DigitPrefix(token)) + 2 .. Len(token) : token[i] \in Digits

\* the numeral token denotes a number in (0, limit]
WithinLimit(token, limit) ==
  /\ \E i \in DOMAIN token : token[i] \in Digits \ {"0"}
  /\ \/ DigitsToInt(DigitPrefix(token), 0) < limit
     \/ /\ DigitsToInt(DigitPrefix(token), 0) = limit
        /\ \A i \in Len(DigitPrefix(token)) + 1 .. Len(token) : token[i] \in {".", "0"}

\* the entire token is a number in the range of the state
InRange(state, token) ==
  /\ Numeral(token)
  /\ state = AGE => DigitPrefix(token) = token /\ WithinLimit(token, 120)
  /\ state = WEIGHT => WithinLimit(token, 1000)
  /\ state = HEIGHT => WithinLimit(token, 300)

Following(state) ==
  IF state = AGE THEN WEIGHT ELSE IF state = WEIGHT THEN HEIGHT ELSE RESULT

\* C18: in AGE, WEIGHT and HEIGHT a token other than "0" and "00" is
\* accepted, the session going on to the next state, exactly when the
\* entire token is a number in range: an integer in [1,120] for age, a
\* number in (0,1000] for weight, a number in (0,300] for height.
C18_WholeTokenInRange ==
  \A state \in {AGE, WEIGHT, HEIGHT} :
    (Found(state) /\ last.text # <<>>
       /\ LastSegment(last.text) \notin {<<"0">>, <<"0", "0">>}) =>
      ((Kept /\ Current.state = Following(state))
         <=> InRange(state, LastSegment(last.text)))

\* C19: in RESULT the only tokens that keep the session are "1" (on to
\* TIPS), "2" (on to HISTORY) and "0" (a new collection, from AGE); every
\* other token but "00" gets the invalid-choice termination and the session
\* is removed.
C19_ResultChoices ==
  (Found(RESULT) /\ last.text # <<>>) =>
    /\ Sent(<<"1">>) => Kept /\ Current.state = TIPS
    /\ Sent(<<"2">>) => Kept /\ Current.state = HISTORY
    /\ Sent(<<"0">>) => Kept /\ Current.state = AGE
    /\ LastSegment(last.text) \notin {<<"1">>, <<"2">>, <<"0">>, <<"0", "0">>} =>
         /\ response = Final(last.before[1].language, "INVALID_CHOICE")
         /\ Removed

C19_Witness ==
  /\ Found(RESULT)
  /\ Sent(Seventy)
  /\ response = Final(last.before[1].language, "INVALID_CHOICE")
  /\ Removed

\* the session found, moved to state with navigationStack stack
Moved(state, stack) ==
  [last.before[1] EXCEPT !.state = state, !.navigationStack = stack,
                         !.lastActivity = now]

\* C20: "1" or "2" in RESULT and then "0" is a round trip.  The way out
\* keeps language, age, weight, height, bmi and category and puts RESULT on
\* the stack; a session in TIPS or HISTORY has RESULT on top of its stack
\* and its bmi and category; the way back takes RESULT off, keeps the
\* fields and shows the BMI-result prompt of the kept bmi and category.
C20_RoundTrip ==
  /\ (Found(RESULT) /\ Sent(<<"1">>)) =>
       Kept /\ Current = Moved(TIPS, Append(last.before[1].navigationStack, RESULT))
  /\ (Found(RESULT) /\ Sent(<<"2">>)) =>
       Kept /\ Current = Moved(HISTORY, Append(last.before[1].navigationStack, RESULT))
  /\ \A sid \in DOMAIN sessions :
       sessions[sid].state \in {TIPS, HISTORY} =>
         /\ sessions[sid].navigationStack # <<>>
         /\ Last(sessions[sid].navigationStack) = RESULT
         /\ sessions[sid].bmi # Null
         /\ sessions[sid].category # Null
  /\ (Sent(<<"0">>) /\ (Found(TIPS) \/ Found(HISTORY))) =>
       /\ Kept
       /\ Current = Moved(RESULT, SubSeq(last.before[1].navigationStack, 1,
                                         Len(last.before[1].navigationStack) - 1))
       /\ response = Prompt(last.before[1].language, "BMI_RESULT",
                            <<last.before[1].bmi[1],
                              getCategoryTranslation(last.before[1].category[1],
                                                     last.before[1].language)>>)

C20_Witness ==
  /\ Sent(<<"0">>)
  /\ Found(HISTORY)
  /\ Kept
  /\ Current.state = RESULT
  /\ Current.bmi = last.before[1].bmi
  /\ Current.bmi # Null
  /\ response[1].key = "BMI_RESULT"

\* C21: "0" in AGE, WEIGHT, HEIGHT, TIPS or HISTORY with a non-empty
\* navigationStack leaves the session in the state that was on top of the
\* stack, with the stack less its top.
C21_BackPopsTop ==
  (Sent(<<"0">>) /\ StackBefore # <<>>
     /\ \E state \in {AGE, WEIGHT, HEIGHT, TIPS, HISTORY} : Found(state)) =>
    /\ Kept
    /\ Current.state = Last(StackBefore)
    /\ Current.navigationStack = SubSeq(StackBefore, 1, Len(StackBefore) - 1)

\* the request selected lang at WELCOME and went on to AGE
Selected(lang) ==
  /\ Kept
  /\ Current.language = lang
  /\ Current.state = AGE
  /\ response = Prompt(lang, "ENTER_AGE", <<>>)

\* C22: in WELCOME "1" sets the language to kinyarwanda and "2" to english,
\* the session goes on to AGE and gets the age prompt in that language; any
\* other token but "0" and "00" gets the invalid-input termination and the
\* session is removed.
C22_LanguageSelection ==
  (Requested /\ last.text # <<>> /\ StateBefore = WELCOME) =>
    /\ Sent(<<"1">>) => Selected("kinyarwanda")
    /\ Sent(<<"2">>) => Selected("english")
    /\ LastSegment(last.text) \notin {<<"1">>, <<"2">>, <<"0">>, <<"0", "0">>} =>
         /\ response # Null
         /\ response[1].marker = "END"
         /\ response[1].key = "INVALID"
         /\ Removed

C22_Witness ==
  /\ Sent(<<"2">>)
  /\ Found(WELCOME)
  /\ Selected("english")
  /\ Current.navigationStack = <<WELCOME>>

\* C23: an empty text starts the dialog in every state: the session is
\* reset to WELCOME with an empty navigationStack and no collected field,
\* it stays in the map with an active row, and the welcome prompt is sent.
C23_EmptyTextRestarts ==
  (Requested /\ last.text = <<>>) =>
    /\ Kept
    /\ Current.state = WELCOME
    /\ Current.navigationStack = <<>>
    /\ NoFields(Current)
    /\ last.sessionId \in DOMAIN rows
    /\ rows[last.sessionId].status = ACTIVE
    /\ response = Prompt("english", "WELCOME", <<>>)

C23_Witness ==
  /\ Requested
  /\ last.text = <<>>
  /\ Found(RESULT)
  /\ last.before[1].bmi # Null
  /\ Len(last.before[1].navigationStack) >= 4
  /\ Kept
  /\ Current.state = WELCOME
  /\ Current.bmi = Null

\* sid has a session in the map or an active row
Active(sid) ==
  \/ sid \in DOMAIN sessions
  \/ sid \in DOMAIN rows /\ rows[sid].status = ACTIVE

\* C24: while the timers keep firing and the store calls succeed, a session
\* whose requests stop is in the end out of the map and its row is no
\* longer active.
C24_IdleExpires == \A sid \in SessionIds : Active(sid) ~> ~Active(sid)

C24_Witness ==
  /\ last.op = "sweepMemory"
  /\ now > THIRTY_MINUTES
  /\ "s1" \notin DOMAIN sessions
  /\ "s1" \in DOMAIN rows
  /\ rows["s1"].status = EXPIRED
  /\ rows["s1"].current_state = HEIGHT

\* C25: a termination message sent to a caller who has selected a language
\* (invalid input, invalid choice, goodbye, the error message) is in the
\* language of the session.
C25_EndInSessionLanguage ==
  (Requested /\ last.before # Null /\ last.before[1].state # WELCOME
     /\ response # Null /\ response[1].marker = "END") =>
    response[1].lang = last.before[1].language

\* the results recorded for phoneNumber, in the order of their recording
Own(phoneNumber) ==
  SelectSeq(results, LAMBDA record : record.phone_number = phoneNumber)

\* lines lists the newest of own, three at most, the newest first
ListsNewest(lines, own, lang) ==
  /\ Len(lines) = (IF Len(own) < 3 THEN Len(own) ELSE 3)
  /\ \A k \in DOMAIN lines :
       lines[k] = <<own[Len(own) + 1 - k].created_at, own[Len(own) + 1 - k].bmi,
                    getCategoryTranslation(own[Len(own) + 1 - k].category, lang)>>

\* C26: "2" in RESULT shows a history of at most 3 results, all of them
\* recorded for the phone number of the session, the newest first.
C26_HistoryOfCaller ==
  (Found(RESULT) /\ Sent(<<"2">>)) =>
    /\ response # Null
    /\ response[1].key = "HISTORY"
    /\ ListsNewest(response[1].args, Own(last.before[1].phoneNumber),
                   last.before[1].language)

C26_Witness ==
  /\ Found(RESULT)
  /\ Sent(<<"2">>)
  /\ Len(results) = 5
  /\ Len(Own("p1")) = 4
  /\ results[4].phone_number = "p2"
  /\ Len(response[1].args) = 3
  /\ response[1].args[1][1] = 5
  /\ response[1].args[2][1] = 3

\* C27: requests that arrive without a sessionId start distinct sessions:
\* such a request finds no session record of an earlier request and works
\* on one of its own.
C27_AnonymousStartsFresh == Requested => last.before = Null

\* rendering the prompt of session twice gives the same text twice
Rerendered(session) ==
  getStateResponse(getStateResponse(session).session).text = getStateResponse(session).text

\* C28: getStateResponse called twice in a row on a session gives the same
\* text both times: on every session of the map, and on the session a "0"
\* has gone back with, which is the one the handlers render.
C28_RenderTwice ==
  /\ \A sid \in DOMAIN sessions : Rerendered(sessions[sid])
  /\ (Sent(<<"0">>) /\ \E state \in {AGE, WEIGHT, HEIGHT, TIPS, HISTORY} : Found(state)) =>
       Rerendered(WentBackTo)

C28_Witness ==
  /\ Sent(<<"0">>)
  /\ Found(AGE)
  /\ last.before[1].language = "kinyarwanda"
  /\ WentBackTo.state = RESULT
  /\ WentBackTo.bmi = Null
  /\ Kept
  /\ Current.state = WELCOME

\* the sessions of the map whose last activity is at most 30 minutes old
Live == {sid \in DOMAIN sessions : now - sessions[sid].lastActivity <= THIRTY_MINUTES}

\* C29: the sweep never removes a live session.  A sweep of the timer
\* leaves every session whose lastActivity is at most 30 minutes old as it
\* is, and a request never loses its own session to its sweep: when the
\* session is gone after the request, the request ended the dialog.
C29_SweepKeepsLive ==
  [][/\ last'.op = "sweepMemory" =>
          \A sid \in Live : sid \in DOMAIN sessions' /\ sessions'[sid] = sessions[sid]
     /\ \A sid \in Live : sid \in DOMAIN cleanupMemorySessions(sessions, now)
     /\ last'.op = "request" =>
          \/ last'.sessionId \in DOMAIN sessions'
          \/ response'[1].marker = "END"]_vars

C29_Witness ==
  /\ last.op = "sweepMemory"
  /\ "s1" \in DOMAIN sessions
  /\ now - sessions["s1"].lastActivity = THIRTY_MINUTES

\* record is the result of the dialog that found session before in HEIGHT,
\* and shown is the response that dialog got
ResultLogged(before, record, shown) ==
  /\ record.session_id = before.sessionId
  /\ record.phone_number = before.phoneNumber
  /\ record.age = before.age
  /\ Some(record.weight) = before.weight
  /\ shown.key = "BMI_RESULT"
  /\ shown.args = <<record.bmi, getCategoryTranslation(record.category, before.language)>>

\* the request just made found a session in HEIGHT and brought a height in
\* (0, 300]
HeightGiven ==
  /\ last'.before # Null
  /\ last'.before[1].state = HEIGHT
  /\ last'.text # <<>>
  /\ InRange(HEIGHT, LastSegment(last'.text))

\* C30: the result log is append-only and written once for each result: a
\* request appends a record exactly when it brings a valid height in
\* HEIGHT, the record has the age and weight of the session and the bmi
\* and category of the response, and no other request changes the log.
C30_LogOncePerResult ==
  [][last'.op = "request" =>
       IF HeightGiven
         THEN /\ Len(results') = Len(results) + 1
              /\ SubSeq(results', 1, Len(results)) = results
              /\ ResultLogged(last'.before[1], results'[Len(results')], response'[1])
         ELSE results' = results]_vars

\* C31: termination is final in the store: once the row of a sessionId is
\* terminated or expired, no later request makes it active again.
C31_TerminationIsFinal ==
  [][\A sid \in DOMAIN rows :
       rows[sid].status \in {TERMINATED, EXPIRED} =>
         /\ sid \in DOMAIN rows'
         /\ rows'[sid].status # ACTIVE]_vars

\* C32: with requests handled one at a time, after every request the
\* navigationStack of a session is empty exactly when its state is WELCOME;
\* so a "0" in a state whose handler goes back finds a stack to pop, and
\* the empty-stack branch of goBackToPreviousState is not taken.
C32_EmptyStackIsWelcome ==
  /\ \A sid \in DOMAIN sessions :
       sessions[sid].navigationStack = <<>> <=> sessions[sid].state = WELCOME
  /\ (Sent(<<"0">>) /\ \E state \in {AGE, WEIGHT, HEIGHT, TIPS, HISTORY} : Found(state)) =>
       StackBefore # <<>>

C32_Witness ==
  /\ Sent(<<"0">>)
  /\ Found(AGE)
  /\ StackBefore = <<WELCOME>>
  /\ Kept
  /\ Current.state = WELCOME
  /\ Current.navigationStack = <<>>

====
